---- MODULE Spec2Model ----
(***************************************************************************)
(* Model of src/src/lib.rs: the proto <-> rust conversion traits           *)
(* (Required, ToProto, ToProtoAlias, FromProto), their blanket impls for   *)
(* Option and Vec, and the two arms of impl_traits! instantiated as in the *)
(* tests module (ProtoDuration, ProtoDateTimeUtc).                         *)
(*                                                                         *)
(* The conversions are pure functions; they are operators here.  A state   *)
(* is one finished call (operation, argument, outcome) and, for a call     *)
(* made on the result of the call before, that earlier call.               *)
(*                                                                         *)
(* Integer types are two's complement ranges of a scaled width and the     *)
(* chrono unit ratios are scaled with them, so that every (seconds, nanos) *)
(* pair of the wire record is enumerated.  The chrono operations are       *)
(* modelled on chrono's (secs, nanos) representation, as the current       *)
(* 0.4 series computes them (range-checked constructors and arithmetic).   *)
(***************************************************************************)
EXTENDS Integers, Sequences, FiniteSets

VARIABLES input, call, prior

vars == <<input, call, prior>>

(***************************************************************************)
(* Widths and unit ratios (scaled).                                        *)
(***************************************************************************)
\* bits of the wire field `seconds: i64`
I64Bits == 7
\* bits of the wire field `nanos: u32`
U32Bits == 5
\* chrono: milliseconds per second (1000)
MillisPerSec == 2
\* chrono: nanoseconds per millisecond (1_000_000)
NanosPerMilli == 2
\* chrono: seconds per minute (60)
SecsPerMin == 3
\* chrono: minutes per day (1440)
MinsPerDay == 2
\* chrono: days of the calendar range on each side of the epoch
CalendarDays == 4
\* longest Vec passed to a conversion
MaxVecLen == 3

I64Max == 2^(I64Bits - 1) - 1
I64Min == -(2^(I64Bits - 1))
U32Max == 2^U32Bits - 1
I64 == I64Min..I64Max
U32 == 0..U32Max
NanosPerSec == MillisPerSec * NanosPerMilli
SecsPerDay == SecsPerMin * MinsPerDay

(***************************************************************************)
(* Values.                                                                 *)
(***************************************************************************)
\* $type { seconds, nanos }
Wire(seconds, nanos) == [seconds |-> seconds, nanos |-> nanos]
WireRecords == {Wire(s, n) : s \in I64, n \in U32}

\* Option<T>
None == [some |-> FALSE]
Some(v) == [some |-> TRUE, value |-> v]

\* anyhow::Result<T>, and a panic of the call
Ok(v) == [tag |-> "Ok", val |-> v]
Err(e) == [tag |-> "Err", err |-> e]
Panic == [tag |-> "Panic"]
\* a value returned by an infallible function
Return(v) == [tag |-> "Return", val |-> v]

(***************************************************************************)
(* chrono::Duration: secs whole seconds plus nanos in 0..NanosPerSec-1.    *)
(***************************************************************************)
Dur(secs, nanos) == [secs |-> secs, nanos |-> nanos]
DurZero == Dur(0, 0)
\* Duration::MAX: i64::MAX milliseconds; Duration::MIN is its negation
DurMAX == Dur(I64Max \div MillisPerSec, (I64Max % MillisPerSec) * NanosPerMilli)
DurMIN == Dur(-(I64Max \div MillisPerSec) - 1,
              NanosPerSec - (I64Max % MillisPerSec) * NanosPerMilli)

\* derived Ord on (secs, nanos)
DurLt(a, b) == a.secs < b.secs \/ (a.secs = b.secs /\ a.nanos < b.nanos)
DurGe(a, b) == ~DurLt(a, b)
DurInRange(d) == DurGe(d, DurMIN) /\ DurGe(DurMAX, d)

\* every chrono::Duration value
Durations == {d \in {Dur(s, n) : s \in DurMIN.secs..DurMAX.secs, n \in 0..(NanosPerSec - 1)} :
                DurInRange(d)}

\* Duration::seconds: panics out of bounds
DurationSeconds(seconds) ==
    IF DurInRange(Dur(seconds, 0)) THEN Return(Dur(seconds, 0)) ELSE Panic

\* Duration::nanoseconds: div_euclid / rem_euclid by NANOS_PER_SEC
DurationNanoseconds(nanos) ==
    Return(Dur(nanos \div NanosPerSec, nanos % NanosPerSec))

\* Duration + Duration: checked_add(..).expect(..)
DurAdd(a, b) ==
    IF a.tag = "Panic" \/ b.tag = "Panic" THEN Panic
    ELSE LET n == a.val.nanos + b.val.nanos
             s == a.val.secs + b.val.secs
             d == IF n >= NanosPerSec THEN Dur(s + 1, n - NanosPerSec) ELSE Dur(s, n)
         IN  IF DurInRange(d) THEN Return(d) ELSE Panic

\* Duration - Duration: checked_sub(..).expect(..)
DurSub(a, b) ==
    IF a.tag = "Panic" \/ b.tag = "Panic" THEN Panic
    ELSE LET n == a.val.nanos - b.val.nanos
             s == a.val.secs - b.val.secs
             d == IF n < 0 THEN Dur(s - 1, n + NanosPerSec) ELSE Dur(s, n)
         IN  IF DurInRange(d) THEN Return(d) ELSE Panic

\* -Duration
DurNeg(d) ==
    Dur(-d.secs - (IF d.nanos = 0 THEN 0 ELSE 1), (NanosPerSec - d.nanos) % NanosPerSec)

\* Duration::to_std: Err(OutOfRangeError) for a negative duration,
\* else std::time::Duration::new(secs as u64, nanos as u32)
ToStd(d) == IF d.secs < 0 THEN Err("OutOfRangeError") ELSE Ok(Dur(d.secs, d.nanos))

\* `x as i64` of a u64 or u32: two's complement reinterpretation
AsI64(x) == IF x > I64Max THEN x - 2^I64Bits ELSE x

(***************************************************************************)
(* impl_traits!($type, chrono::Duration)                                   *)
(***************************************************************************)
\* a from_proto that adds the nanos whatever the sign of seconds
DurationFromProtoAddsNanos(w) ==
    LET d == DurAdd(DurationSeconds(w.seconds), DurationNanoseconds(AsI64(w.nanos)))
    IN  IF d.tag = "Panic" THEN Panic ELSE Ok(d.val)

\* FromProto::from_proto for $type
DurationFromProto(w) ==
    LET d == IF w.seconds >= 0
             THEN DurAdd(DurationSeconds(w.seconds), DurationNanoseconds(AsI64(w.nanos)))
             ELSE DurSub(DurationSeconds(w.seconds), DurationNanoseconds(AsI64(w.nanos)))
    IN  IF d.tag = "Panic" THEN Panic ELSE Ok(d.val)

\* a to_proto that does not negate the seconds of a negative duration
DurationToProtoKeepsSign(d) ==
    LET time == IF DurGe(d, DurZero) THEN ToStd(d) ELSE ToStd(DurNeg(d))
    IN  IF time.tag = "Err" THEN Panic
        ELSE Return(Wire(AsI64(time.val.secs), time.val.nanos))

\* a to_proto that decomposes a negative duration without negating it first
DurationToProtoFloors(d) ==
    Return(Wire(d.secs, d.nanos))

\* ToProto::to_proto for chrono::Duration
DurationToProto(d) ==
    IF DurGe(d, DurZero)
    THEN LET time == ToStd(d)
         IN  IF time.tag = "Err" THEN Panic
             ELSE Return(Wire(AsI64(time.val.secs), time.val.nanos))
    ELSE LET time == ToStd(DurNeg(d))
         IN  IF time.tag = "Err" THEN Panic
             ELSE Return(Wire(-(AsI64(time.val.secs)), time.val.nanos))

(***************************************************************************)
(* chrono::NaiveDateTime: a date (its day number, counted from the unix    *)
(* epoch), the second of the day and the nanosecond of the second; frac in *)
(* NanosPerSec..2*NanosPerSec-1 is a leap second.  chrono::DateTime<Utc>   *)
(* is a NaiveDateTime in UTC with the offset Utc.                          *)
(***************************************************************************)
NaiveDateTime(date, secs, frac) == [date |-> date, secs |-> secs, frac |-> frac]

\* NaiveDate::from_num_days_from_ce_opt: None out of the calendar range
NaiveDateFromDays(days) ==
    IF days < -CalendarDays \/ days > CalendarDays THEN None ELSE Some(days)

\* NaiveTime::from_num_seconds_from_midnight_opt
NaiveTimeFromSecs(secs, nano) ==
    IF \/ secs >= SecsPerDay
       \/ nano >= 2 * NanosPerSec
       \/ (nano >= NanosPerSec /\ secs % SecsPerMin # SecsPerMin - 1)
    THEN None
    ELSE Some([secs |-> secs, frac |-> nano])

\* NaiveDateTime::from_timestamp_opt(secs, nsecs)
FromTimestampOpt(secs, nsecs) ==
    LET date == NaiveDateFromDays(secs \div SecsPerDay)
        time == NaiveTimeFromSecs(secs % SecsPerDay, nsecs)
    IN  IF date.some /\ time.some
        THEN Some(NaiveDateTime(date.value, time.value.secs, time.value.frac))
        ELSE None

\* NaiveDateTime::timestamp
Timestamp(value) == value.date * SecsPerDay + value.secs

\* timestamp_subsec_millis taken for timestamp_subsec_nanos
TimestampSubsecMillis(value) == value.frac \div NanosPerMilli

\* NaiveDateTime::timestamp_subsec_nanos
TimestampSubsecNanos(value) == value.frac

\* DateTime::from_naive_utc_and_offset(value, chrono::Utc)
FromNaiveUtcAndOffset(value, offset) == [datetime |-> value, offset |-> offset]

\* DateTime::naive_utc
NaiveUtc(dt) == dt.datetime

\* every chrono::DateTime<Utc> value
DateTimes ==
    {dt \in {FromNaiveUtcAndOffset(NaiveDateTime(d, s, f), "Utc") :
                d \in (-CalendarDays)..CalendarDays,
                s \in 0..(SecsPerDay - 1),
                f \in 0..(2 * NanosPerSec - 1)} :
        \/ dt.datetime.frac < NanosPerSec
        \/ dt.datetime.secs % SecsPerMin = SecsPerMin - 1}

(***************************************************************************)
(* Display of an integer ("{}"): its decimal digits, after "-" if it is    *)
(* negative.  A string is the sequence of its pieces.                      *)
(***************************************************************************)
DigitChar == <<"0", "1", "2", "3", "4", "5", "6", "7", "8", "9">>

RECURSIVE Digits(_)
Digits(n) ==
    IF n < 10 THEN <<DigitChar[n + 1]>>
    ELSE Append(Digits(n \div 10), DigitChar[(n % 10) + 1])

Display(n) == IF n < 0 THEN <<"-">> \o Digits(-n) ELSE Digits(n)

(***************************************************************************)
(* impl_traits!($type, chrono::DateTime<chrono::Utc>)                      *)
(***************************************************************************)
\* ToProto::to_proto for chrono::DateTime<chrono::Utc>
DateTimeToProto(dt) ==
    LET value == NaiveUtc(dt)
    IN  Return(Wire(Timestamp(value), TimestampSubsecNanos(value)))

\* the message with its two arguments in the other order
ParseTimestampMessageSwapped(seconds, nanos) ==
    <<"Failed to parse timestamp: ">> \o Display(nanos) \o <<" s and ">>
        \o Display(seconds) \o <<" ns">>

\* "Failed to parse timestamp: {} s and {} ns"
ParseTimestampMessage(seconds, nanos) ==
    <<"Failed to parse timestamp: ">> \o Display(seconds) \o <<" s and ">>
        \o Display(nanos) \o <<" ns">>

\* FromProto::from_proto for $type
DateTimeFromProto(w) ==
    LET parsed == FromTimestampOpt(w.seconds, w.nanos)
    IN  IF ~parsed.some
        THEN Err(ParseTimestampMessage(w.seconds, w.nanos))
        ELSE Ok(FromNaiveUtcAndOffset(parsed.value, "Utc"))

(***************************************************************************)
(* The generic impls.  T is ProtoDateTimeUtc for the FromProto impls (the  *)
(* one from_proto that returns errors) and chrono::DateTime<Utc> for the   *)
(* ToProto impls.                                                          *)
(***************************************************************************)
\* impl<T> Required for Option<T>
Required(opt) ==
    IF opt.some THEN Ok(opt.value) ELSE Err(<<"Required is missing">>)

\* Option::map(|v| v.from_proto())
MapFromProto(opt) == IF opt.some THEN Some(DateTimeFromProto(opt.value)) ELSE None

\* Option<Result<T, E>> flattened with ok(): an error becomes None
TransposeDropsError(opt) ==
    IF ~opt.some THEN Ok(None)
    ELSE IF opt.value.tag = "Ok" THEN Ok(Some(opt.value.val))
    ELSE Ok(None)

\* Option<Result<T, E>>::transpose
Transpose(opt) ==
    IF ~opt.some THEN Ok(None)
    ELSE IF opt.value.tag = "Ok" THEN Ok(Some(opt.value.val))
    ELSE Err(opt.value.err)

\* impl<T: FromProto> FromProto for Option<T>
OptionFromProto(opt) == Transpose(MapFromProto(opt))

\* impl ToProtoAlias<bool> for bool
BoolToProto(b) == Return(b)

\* the types that implement FromProto
FromProtoImpls == {"ProtoDuration", "ProtoDateTimeUtc", "Option", "Vec"}

\* x.from_proto() on a bool: bool does not implement FromProto
BoolFromProto(b) ==
    IF "bool" \in FromProtoImpls THEN Ok(b) ELSE [tag |-> "NoImpl"]

\* a loop that skips the items that fail (filter_map(|v| v.from_proto().ok()))
RECURSIVE VecFromProtoLoopSkipsErrors(_, _, _)
VecFromProtoLoopSkipsErrors(items, i, result) ==
    IF i > Len(items) THEN [ret |-> Ok(result), converted |-> i - 1]
    ELSE LET r == DateTimeFromProto(items[i])
         IN  VecFromProtoLoopSkipsErrors(items, i + 1,
                 IF r.tag = "Err" THEN result ELSE Append(result, r.val))

\* impl<T: FromProto> FromProto for Vec<T>: the loop from item i on, with the
\* result pushed so far; `converted` counts the items whose from_proto ran
RECURSIVE VecFromProtoLoop(_, _, _)
VecFromProtoLoop(items, i, result) ==
    IF i > Len(items) THEN [ret |-> Ok(result), converted |-> i - 1]
    ELSE LET r == DateTimeFromProto(items[i])
         IN  IF r.tag = "Err" THEN [ret |-> Err(r.err), converted |-> i]
             ELSE VecFromProtoLoop(items, i + 1, Append(result, r.val))

VecFromProto(items) == VecFromProtoLoop(items, 1, <<>>)

\* impl<T: ToProto> ToProto for Vec<T>
VecToProto(items) == Return([i \in 1..Len(items) |-> DateTimeToProto(items[i]).val])

\* impl<T: ToProto> ToProto for Option<T>
OptionToProto(opt) ==
    Return(IF opt.some THEN Some(DateTimeToProto(opt.value).val) ELSE None)

(***************************************************************************)
(* Calls.  The argument of the first call is drawn in Init; a second call  *)
(* is made on what the first returned.                                     *)
(***************************************************************************)
NoCall == [op |-> "none"]
Call(op, arg, ret) == [op |-> op, arg |-> arg, ret |-> ret]

\* a value and the rust type it has
Typed(type, value) == [type |-> type, value |-> value]

\* the wire timestamps a Vec is made of: two that parse, two that do not
VecWireItems ==
    {Wire(0, 0), Wire(-1, 2), Wire(0, 2 * NanosPerSec), Wire(I64Max, U32Max)}

\* the timestamps a Vec is made of
VecDateTimeItems ==
    {FromNaiveUtcAndOffset(NaiveDateTime(0, 0, 0), "Utc"),
     FromNaiveUtcAndOffset(NaiveDateTime(-1, SecsPerDay - 1, 2), "Utc"),
     FromNaiveUtcAndOffset(NaiveDateTime(CalendarDays, SecsPerMin - 1, NanosPerSec), "Utc")}

SeqsUpTo(S, n) == UNION {[1..k -> S] : k \in 0..n}

Options(S) == {None} \cup {Some(v) : v \in S}

\* the arguments of rust type `type`
Inputs(type) ==
    CASE type = "ProtoDuration" -> WireRecords
      [] type = "chrono::Duration" -> Durations
      [] type = "ProtoDateTimeUtc" -> WireRecords
      [] type = "chrono::DateTime<Utc>" -> DateTimes
      [] type = "Option<ProtoDateTimeUtc>" -> Options(WireRecords)
      [] type = "Option<chrono::DateTime<Utc>>" -> Options(DateTimes)
      [] type = "Vec<ProtoDateTimeUtc>" -> SeqsUpTo(VecWireItems, MaxVecLen)
      [] type = "Vec<chrono::DateTime<Utc>>" -> SeqsUpTo(VecDateTimeItems, MaxVecLen)
      [] type = "bool" -> BOOLEAN

Types ==
    {"ProtoDuration", "chrono::Duration", "ProtoDateTimeUtc", "chrono::DateTime<Utc>",
     "Option<ProtoDateTimeUtc>", "Option<chrono::DateTime<Utc>>",
     "Vec<ProtoDateTimeUtc>", "Vec<chrono::DateTime<Utc>>", "bool"}

Init ==
    /\ \E type \in Types : \E value \in Inputs(type) : input = Typed(type, value)
    /\ call = NoCall
    /\ prior = NoCall

\* pd.from_proto() on a wire duration
DurationFromProtoCall ==
    /\ call = NoCall
    /\ input.type = "ProtoDuration"
    /\ call' = Call("Duration::from_proto", input.value, DurationFromProto(input.value))
    /\ UNCHANGED <<input, prior>>

\* d.to_proto() on the duration the call before returned
DurationToProtoOfResult ==
    /\ call.op = "Duration::from_proto"
    /\ call.ret.tag = "Ok"
    /\ prior = NoCall
    /\ prior' = call
    /\ call' = Call("Duration::to_proto", call.ret.val, DurationToProto(call.ret.val))
    /\ UNCHANGED input

\* d.to_proto() on a chrono::Duration
DurationToProtoCall ==
    /\ call = NoCall
    /\ input.type = "chrono::Duration"
    /\ call' = Call("Duration::to_proto", input.value, DurationToProto(input.value))
    /\ UNCHANGED <<input, prior>>

\* pd.from_proto() on the wire duration the call before returned
DurationFromProtoOfResult ==
    /\ call.op = "Duration::to_proto"
    /\ call.ret.tag = "Return"
    /\ prior = NoCall
    /\ prior' = call
    /\ call' = Call("Duration::from_proto", call.ret.val, DurationFromProto(call.ret.val))
    /\ UNCHANGED input

\* pd.from_proto() on a wire timestamp
DateTimeFromProtoCall ==
    /\ call = NoCall
    /\ input.type = "ProtoDateTimeUtc"
    /\ call' = Call("DateTime::from_proto", input.value, DateTimeFromProto(input.value))
    /\ UNCHANGED <<input, prior>>

\* d.to_proto() on the timestamp the call before returned
DateTimeToProtoOfResult ==
    /\ call.op = "DateTime::from_proto"
    /\ call.ret.tag = "Ok"
    /\ prior = NoCall
    /\ prior' = call
    /\ call' = Call("DateTime::to_proto", call.ret.val, DateTimeToProto(call.ret.val))
    /\ UNCHANGED input

\* d.to_proto() on a chrono::DateTime<Utc>
DateTimeToProtoCall ==
    /\ call = NoCall
    /\ input.type = "chrono::DateTime<Utc>"
    /\ call' = Call("DateTime::to_proto", input.value, DateTimeToProto(input.value))
    /\ UNCHANGED <<input, prior>>

\* opt.from_proto() on an optional wire timestamp
OptionFromProtoCall ==
    /\ call = NoCall
    /\ input.type = "Option<ProtoDateTimeUtc>"
    /\ call' = Call("Option::from_proto", input.value, OptionFromProto(input.value))
    /\ UNCHANGED <<input, prior>>

\* opt.required() on an optional wire timestamp
RequiredCall ==
    /\ call = NoCall
    /\ input.type = "Option<ProtoDateTimeUtc>"
    /\ call' = Call("Option::required", input.value, Required(input.value))
    /\ UNCHANGED <<input, prior>>

\* opt.to_proto() on an optional timestamp
OptionToProtoCall ==
    /\ call = NoCall
    /\ input.type = "Option<chrono::DateTime<Utc>>"
    /\ call' = Call("Option::to_proto", input.value, OptionToProto(input.value))
    /\ UNCHANGED <<input, prior>>

\* v.from_proto() on a Vec of wire timestamps
VecFromProtoCall ==
    /\ call = NoCall
    /\ input.type = "Vec<ProtoDateTimeUtc>"
    /\ LET done == VecFromProto(input.value)
       IN  call' = [op |-> "Vec::from_proto", arg |-> input.value,
                    ret |-> done.ret, converted |-> done.converted]
    /\ UNCHANGED <<input, prior>>

\* v.to_proto() on a Vec of timestamps
VecToProtoCall ==
    /\ call = NoCall
    /\ input.type = "Vec<chrono::DateTime<Utc>>"
    /\ call' = Call("Vec::to_proto", input.value, VecToProto(input.value))
    /\ UNCHANGED <<input, prior>>

\* b.to_proto() on a bool
BoolToProtoCall ==
    /\ call = NoCall
    /\ input.type = "bool"
    /\ call' = Call("bool::to_proto", input.value, BoolToProto(input.value))
    /\ UNCHANGED <<input, prior>>

\* b.from_proto() on a bool
BoolFromProtoCall ==
    /\ call = NoCall
    /\ input.type = "bool"
    /\ call' = Call("bool::from_proto", input.value, BoolFromProto(input.value))
    /\ UNCHANGED <<input, prior>>

Next ==
    \/ DurationFromProtoCall
    \/ DurationToProtoOfResult
    \/ DurationToProtoCall
    \/ DurationFromProtoOfResult
    \/ DateTimeFromProtoCall
    \/ DateTimeToProtoOfResult
    \/ DateTimeToProtoCall
    \/ OptionFromProtoCall
    \/ RequiredCall
    \/ OptionToProtoCall
    \/ VecFromProtoCall
    \/ VecToProtoCall
    \/ BoolToProtoCall
    \/ BoolFromProtoCall

Spec == Init /\ [][Next]_vars

(***************************************************************************)
(* Properties.                                                             *)
(***************************************************************************)
Abs(x) == IF x < 0 THEN -x ELSE x

\* the duration as a number of nanoseconds
TotalNanos(d) == d.secs * NanosPerSec + d.nanos

\* the first call of a run: from_proto on a wire duration
IsDurationFromWire == call.op = "Duration::from_proto" /\ prior = NoCall
\* the first call of a run: to_proto on a chrono::Duration
IsDurationToWire == call.op = "Duration::to_proto" /\ prior = NoCall
\* to_proto on the duration that from_proto returned
IsDurationWireRoundTrip == call.op = "Duration::to_proto" /\ prior.op = "Duration::from_proto"
\* from_proto on the wire duration that to_proto returned
IsDurationDomainRoundTrip == call.op = "Duration::from_proto" /\ prior.op = "Duration::to_proto"

\* C1: for every wire duration {seconds, nanos} with nanos below one second,
\* from_proto returns a duration and to_proto of it returns {seconds, nanos}.
C1_DurationWireRoundTrip ==
    /\ (IsDurationFromWire /\ call.arg.nanos < NanosPerSec) => call.ret.tag = "Ok"
    /\ (IsDurationWireRoundTrip /\ prior.arg.nanos < NanosPerSec)
          => call.ret = Return(prior.arg)

\* C2 as stated: from_proto of {seconds: -1, nanos: 2} is -(1 second) + 2
\* nanoseconds.
C2_MinusOneSecondPlusNanos ==
    (IsDurationFromWire /\ call.arg = Wire(-1, 2))
        => (call.ret.tag = "Ok" /\ TotalNanos(call.ret.val) = -NanosPerSec + 2)

\* C2 amended: from_proto of {seconds: -1, nanos: 2} is -(1 second) - 2
\* nanoseconds, the nanos subtracted from the negative seconds.
C2_MinusOneSecondMinusNanos ==
    (IsDurationFromWire /\ call.arg = Wire(-1, 2))
        => (call.ret.tag = "Ok" /\ TotalNanos(call.ret.val) = -NanosPerSec - 2)

C2_Witness ==
    IsDurationFromWire /\ call.arg = Wire(-1, 2) /\ call.ret.tag = "Ok"

SubSecondNegative(d) == d.secs = -1 /\ d.nanos > 0

ToProtoOps == {"Duration::to_proto", "DateTime::to_proto", "bool::to_proto",
               "Option::to_proto", "Vec::to_proto"}

IsDateTimeFromWire == call.op = "DateTime::from_proto" /\ prior = NoCall
IsDateTimeWireRoundTrip == call.op = "DateTime::to_proto" /\ prior.op = "DateTime::from_proto"

\* C4: every to_proto conversion (duration, timestamp, bool, Option, Vec)
\* returns a value for every input, and the duration from_proto returns Ok
\* for every (seconds, nanos) pair.
C4_Total ==
    /\ call.op \in ToProtoOps => call.ret.tag = "Return"
    /\ call.op = "Duration::from_proto" => call.ret.tag = "Ok"

\* C10: to_proto of a duration of t nanoseconds returns nanos in
\* 0..NanosPerSec-1 and seconds of the sign of t (or zero), the whole seconds
\* and the sub-second nanoseconds of |t|.
C10_DurationToWireDecomposition ==
    IsDurationToWire =>
        LET t == TotalNanos(call.arg)
            w == call.ret.val
        IN  /\ call.ret.tag = "Return"
            /\ w.nanos \in 0..(NanosPerSec - 1)
            /\ t >= 0 => (w.seconds = t \div NanosPerSec /\ w.seconds >= 0)
            /\ t < 0 => (w.seconds = -((-t) \div NanosPerSec) /\ w.seconds <= 0)
            /\ w.nanos = Abs(t) % NanosPerSec
            /\ Abs(w.seconds) * NanosPerSec + w.nanos = Abs(t)

C10_Witness ==
    /\ IsDurationToWire
    /\ TotalNanos(call.arg) < 0
    /\ call.ret.tag = "Return"
    /\ call.ret.val.seconds < 0
    /\ call.ret.val.nanos > 0

\* C5: for every wire timestamp that from_proto accepts, to_proto of the
\* timestamp it returns is the same {seconds, nanos}.
C5_TimestampWireRoundTrip ==
    IsDateTimeWireRoundTrip => call.ret = Return(prior.arg)

C5_Witness ==
    IsDateTimeWireRoundTrip /\ prior.arg = Wire(-1, 2) /\ call.ret = Return(Wire(-1, 2))

\* the wire records of the calendar instants: what to_proto returns for some
\* chrono::DateTime<Utc>
ValidWireTimestamps == {DateTimeToProto(dt).val : dt \in DateTimes}

DigitValue(c) == CHOOSE v \in 0..9 : DigitChar[v + 1] = c

RECURSIVE ParseNat(_)
ParseNat(str) ==
    IF Len(str) = 1 THEN DigitValue(str[1])
    ELSE 10 * ParseNat(SubSeq(str, 1, Len(str) - 1)) + DigitValue(str[Len(str)])

\* the integer a decimal string denotes
ParseInt(str) == IF str[1] = "-" THEN -ParseNat(Tail(str)) ELSE ParseNat(str)

\* msg is "Failed to parse timestamp: <seconds> s and <nanos> ns"
IsParseTimestampMessage(msg, seconds, nanos) ==
    \E k \in 3..(Len(msg) - 2) :
        /\ msg[1] = "Failed to parse timestamp: "
        /\ msg[k] = " s and "
        /\ msg[Len(msg)] = " ns"
        /\ ParseInt(SubSeq(msg, 2, k - 1)) = seconds
        /\ ParseInt(SubSeq(msg, k + 1, Len(msg) - 1)) = nanos

Failing(items) == {i \in 1..Len(items) : DateTimeFromProto(items[i]).tag = "Err"}

Min(S) == CHOOSE x \in S : \A y \in S : x <= y

\* C7: from_proto of a Vec returns Ok of the items' conversions, in order,
\* if every item converts; otherwise it returns the error of the first
\* failing item and nothing else, having converted no item after it.
C7_VecFailFast ==
    call.op = "Vec::from_proto" =>
        IF Failing(call.arg) = {}
        THEN /\ call.ret.tag = "Ok"
             /\ Len(call.ret.val) = Len(call.arg)
             /\ \A i \in 1..Len(call.arg) :
                    Ok(call.ret.val[i]) = DateTimeFromProto(call.arg[i])
        ELSE /\ call.ret = DateTimeFromProto(call.arg[Min(Failing(call.arg))])
             /\ DOMAIN call.ret = {"tag", "err"}
             /\ call.converted = Min(Failing(call.arg))

C7_Witness ==
    /\ call.op = "Vec::from_proto"
    /\ Failing(call.arg) = {2, 3}
    /\ DateTimeFromProto(call.arg[2]) # DateTimeFromProto(call.arg[3])
    /\ call.ret = DateTimeFromProto(call.arg[2])

\* C8: from_proto of None is Ok(None); of Some(w) it is Ok(Some(d)) when w
\* converts to d and the error of w when it does not.  required() of None is
\* the error "Required is missing"; of Some(v) it is Ok(v).
C8_OptionalComposition ==
    /\ call.op = "Option::from_proto" =>
          IF ~call.arg.some THEN call.ret = Ok(None)
          ELSE LET r == DateTimeFromProto(call.arg.value)
               IN  IF r.tag = "Ok" THEN call.ret = Ok(Some(r.val))
                   ELSE call.ret = Err(r.err)
    /\ call.op = "Option::required" =>
          IF call.arg.some THEN call.ret = Ok(call.arg.value)
          ELSE call.ret = Err(<<"Required is missing">>)

C8_Witness ==
    /\ call.op = "Option::from_proto"
    /\ call.arg.some
    /\ call.ret.tag = "Err"

\* C9: the bool to_proto returns its input, and the bool from_proto exists
\* and returns Ok of its input.
C9_BoolIdentity ==
    /\ call.op = "bool::to_proto" => call.ret = Return(call.arg)
    /\ call.op = "bool::from_proto" => call.ret = Ok(call.arg)

====
